---------------------------- MODULE Spec2Model ----------------------------
(***************************************************************************)
(* The yum distributor of pulp_rpm                                         *)
(* (src/pulp_rpm/plugins/distributors/yum_distributor/distributor.py):     *)
(* the publication pipeline YumDistributor.publish_repo with its two       *)
(* symlinking passes (handle_symlinks, symlink_distribution_unit_files),   *)
(* the orphan pass, the path migration, the two protocol steps, the        *)
(* cancellation flag and distributor_removed, and validate_config with the *)
(* auth bookkeeping it writes.                                             *)
(*                                                                         *)
(* Paths of the working directory are triples <<dir, name, n>>; storage    *)
(* paths (the sources of links) are triples <<kind, unit, file>>.          *)
(***************************************************************************)
EXTENDS Integers, Sequences, FiniteSets, TLC

VARIABLES
    canceled,         \* self.canceled
    package_dir,      \* self.package_dir
    wd,               \* repo.working_dir: path -> entry (none, dir, link)
    pub,              \* the published links: a set of <<root, relative path>>
    scratchpad,       \* distributor scratchpad (the manifest), as persisted
    repo_scratchpad,  \* repo scratchpad (old_relative_path), as persisted
    progress_status,  \* publish_repo's progress_status dict
    pc,               \* position of the running publish_repo ("idle": none)
    inv,              \* the last operation and its locals
    report,           \* what the last publish_repo returned
    units_db,         \* the units associated with the repository (the conduit)
    sysenv,           \* the storage and the faults of the file system
    repo_config,      \* the distributor configuration of the repository
    changes,          \* how often the world around the distributor has acted
    repo_auth         \* the auth bookkeeping: cert bundle and protected listing

vars == <<canceled, package_dir, wd, pub, scratchpad, repo_scratchpad,
          progress_status, pc, inv, report, units_db, sysenv, repo_config, changes,
          repo_auth>>

---------------------------------------------------------------------------
(* Bounds *)

MaxPkgs == 2
MaxDistros == 2
MaxChanges == 2

---------------------------------------------------------------------------
(* Universe *)

None == "None"

Pkgs == 1..MaxPkgs
DistroIds == 1..MaxDistros
FileIds == 1..(MaxDistros + 1)

PackageDirs == {"Packages", "Server"}

TREE_INFO_LIST == <<".treeinfo", "treeinfo">>

\* storage paths (sources)
WD == <<"wd", 0, 0>>
NoTarget == <<"", 0, 0>>
PkgSrc(p) == <<"pkg", p, 0>>
FileSrc(u, f) == <<"distro", u, f>>
TreeinfoSrc(u, name) == <<name, u, 0>>

\* paths under the working directory
NoPath == <<"", "", 0>>
PkgPath(p) == <<"", "rpm", p>>
PkgDirPath(d, p) == <<d, "rpm", p>>
FilePath(f) == <<"", "file", f>>
TopPath(name) == <<"", name, 0>>
PackagesPath == TopPath("Packages")

WdPaths ==
    {PkgPath(p) : p \in Pkgs}
    \cup {PkgDirPath(d, p) : d \in PackageDirs, p \in Pkgs}
    \cup {FilePath(f) : f \in FileIds}
    \cup {TopPath(d) : d \in PackageDirs}
    \cup {TopPath(TREE_INFO_LIST[i]) : i \in 1..Len(TREE_INFO_LIST)}

Absent == [k |-> "none", to |-> NoTarget]
RealDir == [k |-> "dir", to |-> NoTarget]
LinkTo(src) == [k |-> "link", to |-> src]

NoFault == <<"none", NoPath>>

---------------------------------------------------------------------------
(* The file system, as the os.path calls of the code see it.  env is what  *)
(* the operating system answers during one call: env.missing the storage   *)
(* paths that do not exist, env.fault the destination at which an          *)
(* operation fails and how.                                                *)

islink(w, p) == w[p].k = "link"

lexists(w, p) == w[p].k # "none"

src_exists(env, s) == s = WD \/ s \notin env.missing

exists(w, env, p) ==
    \/ w[p].k = "dir"
    \/ w[p].k = "link" /\ src_exists(env, w[p].to)

\* a path below a top-level name that is a link to the working directory
\* itself (the Packages alias) is the path of that name at the top level
realpath(w, p) ==
    IF p[1] # "" /\ w[TopPath(p[1])] = LinkTo(WD) THEN <<"", p[2], p[3]>> ELSE p

create_symlink(w, env, src, dst0) ==
    LET dst == realpath(w, dst0)
        made == [w EXCEPT ![dst] = LinkTo(src)]
    IN  IF w[dst].k = "dir"
          THEN [ret |-> "False", wd |-> w, made |-> 0]
        ELSE IF w[dst] = LinkTo(src)
          THEN [ret |-> "True", wd |-> w, made |-> 0]
        ELSE IF env.fault = <<"false", dst0>>
          THEN [ret |-> "False", wd |-> w, made |-> 0]
        ELSE IF env.fault = <<"raise", dst0>>
          THEN [ret |-> "raise", wd |-> w, made |-> 0]
        ELSE [ret |-> "True",
              wd |-> IF dst[1] # "" /\ w[TopPath(dst[1])].k = "none"
                       THEN [made EXCEPT ![TopPath(dst[1])] = RealDir]
                       ELSE made,
              made |-> 1]

\* util.remove_repo_publish_dir below the working directory
remove_link(w, p) == [w EXCEPT ![p] = Absent]

---------------------------------------------------------------------------
(* Progress records *)

init_progress ==
    [state |-> "IN_PROGRESS", num_success |-> 0, num_error |-> 0,
     items_left |-> 0, items_total |-> 0, error_details |-> <<>>]

NotStarted == [state |-> "NOT_STARTED"]

InitialProgress ==
    [packages |-> NotStarted, distribution |-> NotStarted, metadata |-> NotStarted,
     packagegroups |-> NotStarted, publish_http |-> NotStarted,
     publish_https |-> NotStarted]

---------------------------------------------------------------------------
(* handle_symlinks: the package pass.  units is a sequence of package ids. *)

MissingError(src, dst) == <<src, dst, "missing">>
UnableError(src, dst) == <<src, dst, "unable">>
ExceptionError(src, dst) == <<src, dst, "exception">>

Failed(st, err) ==
    [st EXCEPT !.errors = Append(@, err),
               !.prog.num_error = @ + 1,
               !.prog.items_left = @ - 1]

\* one iteration of the loop over the units (lines 505-547)
handle_symlinks_unit(st0, u, env, pdir) ==
    LET st == [st0 EXCEPT !.reports = Append(@, st0.prog)]
        source_path == PkgSrc(u)
        symlink_path == PkgPath(u)
        r1 == create_symlink(st.wd, env, source_path, symlink_path)
        st1 == [st EXCEPT !.wd = r1.wd, !.made = @ + r1.made]
        second_path == PkgDirPath(pdir, u)
        r2 == create_symlink(st1.wd, env, source_path, second_path)
        st2 == [st1 EXCEPT !.wd = r2.wd, !.made = @ + r2.made]
        Done(s) == [s EXCEPT !.prog.num_success = @ + 1,
                             !.prog.items_left = @ - 1]
    IN  IF ~src_exists(env, source_path)
          THEN Failed(st, MissingError(source_path, symlink_path))
        ELSE IF r1.ret = "raise"
          THEN Failed(st1, ExceptionError(source_path, symlink_path))
        ELSE IF r1.ret = "False"
          THEN Failed(st1, UnableError(source_path, symlink_path))
        ELSE IF pdir = None
          THEN Done(st1)
        ELSE IF r2.ret = "raise"
          THEN Failed(st2, ExceptionError(source_path, second_path))
        ELSE IF r2.ret = "False"
          THEN Done(Failed(st2, UnableError(source_path, second_path)))
        ELSE Done(st2)

\* a loop that stops at the first unit that fails
RECURSIVE handle_symlinks_loop_abort(_, _, _, _, _)
handle_symlinks_loop_abort(st, units, i, env, pdir) ==
    IF i > Len(units) \/ st.errors # <<>> THEN st
    ELSE handle_symlinks_loop_abort(handle_symlinks_unit(st, units[i], env, pdir),
                                    units, i + 1, env, pdir)

RECURSIVE handle_symlinks_loop(_, _, _, _, _)
handle_symlinks_loop(st, units, i, env, pdir) ==
    IF i > Len(units) THEN st
    ELSE handle_symlinks_loop(handle_symlinks_unit(st, units[i], env, pdir),
                              units, i + 1, env, pdir)

\* a return that reports success whatever the error list holds
handle_symlinks_return_true(st) ==
    [status |-> TRUE, errors |-> st.errors, wd |-> st.wd,
     prog |-> [st.prog EXCEPT !.error_details = st.errors],
     reports |-> st.reports, made |-> st.made]

\* lines 548-553: with errors the record keeps the state IN_PROGRESS and is
\* not reported again
handle_symlinks_return(st) ==
    IF st.errors # <<>>
      THEN [status |-> FALSE, errors |-> st.errors, wd |-> st.wd,
            prog |-> [st.prog EXCEPT !.error_details = st.errors],
            reports |-> st.reports, made |-> st.made]
      ELSE [status |-> TRUE, errors |-> <<>>, wd |-> st.wd,
            prog |-> [st.prog EXCEPT !.state = "FINISHED"],
            reports |-> Append(st.reports, [st.prog EXCEPT !.state = "FINISHED"]),
            made |-> st.made]

handle_symlinks(units, w, env, pdir) ==
    handle_symlinks_return(
        handle_symlinks_loop(
            [wd |-> w, errors |-> <<>>,
             prog |-> [init_progress EXCEPT !.items_total = Len(units),
                                            !.items_left = Len(units)],
             reports |-> <<init_progress>>, made |-> 0],
            units, 1, env, pdir))

---------------------------------------------------------------------------
(* symlink_distribution_unit_files: the distribution pass.  A unit is a    *)
(* record [id, packagedir, has_files]; unit i declares the files i, i+1,   *)
(* so that neighbouring units share one relative path.                     *)

distro_files(u) == IF u.has_files THEN <<u.id, u.id + 1>> ELSE <<>>

NoManifest == [i \in {} |-> <<>>]
EmptyScratchpad == [has |-> FALSE, m |-> NoManifest]

Range(s) == {s[i] : i \in 1..Len(s)}

RECURSIVE remove_orphaned_paths(_, _, _, _)
remove_orphaned_paths(w, env, paths, i) ==
    IF i > Len(paths) THEN [raised |-> FALSE, wd |-> w]
    ELSE IF ~islink(w, paths[i]) THEN remove_orphaned_paths(w, env, paths, i + 1)
    ELSE IF env.fault = <<"oserror", paths[i]>> THEN [raised |-> TRUE, wd |-> w]
    ELSE remove_orphaned_paths(remove_link(w, paths[i]), env, paths, i + 1)

\* The loop runs over the dict it deletes from: after the first deletion the
\* next step of the iteration raises RuntimeError.  first is the orphaned id
\* the iteration meets first (the order of a dict is not fixed).
handle_orphaned_distributions(unit_ids, w, env, sp, first) ==
    LET orphans == DOMAIN sp.m \ unit_ids
        r == remove_orphaned_paths(w, env, sp.m[first], 1)
    IN  IF ~sp.has \/ orphans = {}
          THEN [raised |-> FALSE, wd |-> w, scratchpad |-> sp]
          ELSE [raised |-> TRUE, wd |-> r.wd,
                scratchpad |-> IF r.raised THEN sp
                               ELSE [sp EXCEPT !.m = [i \in DOMAIN sp.m \ {first} |-> sp.m[i]]]]

\* lines 611-619: the package subdirectory becomes a real directory
prepare_package_dir(st, u, env) ==
    LET package_path == TopPath(u.packagedir)
        unlinked == IF islink(st.wd, package_path)
                      THEN remove_link(st.wd, package_path) ELSE st.wd
        created == IF ~exists(unlinked, env, package_path)
                     THEN [unlinked EXCEPT ![package_path] = RealDir] ELSE unlinked
        touched == islink(st.wd, package_path) \/ ~exists(unlinked, env, package_path)
    IN  IF u.packagedir = None THEN st
        ELSE IF touched /\ env.fault = <<"oserror", package_path>>
          THEN [st EXCEPT !.package_dir = u.packagedir, !.raised = TRUE]
        ELSE [st EXCEPT !.package_dir = u.packagedir, !.wd = created]

RECURSIVE treeinfo_index(_, _, _)
treeinfo_index(u, env, i) ==
    IF i >= Len(TREE_INFO_LIST) \/ src_exists(env, TreeinfoSrc(u.id, TREE_INFO_LIST[i]))
      THEN i ELSE treeinfo_index(u, env, i + 1)

\* lines 627-638: after the loop src_treeinfo_path is never None
symlink_treeinfo(st, u, env) ==
    LET treeinfo == TREE_INFO_LIST[treeinfo_index(u, env, 1)]
        r == create_symlink(st.wd, env, TreeinfoSrc(u.id, treeinfo), TopPath(treeinfo))
    IN  IF r.ret = "raise" THEN [st EXCEPT !.raised = TRUE]
        ELSE [st EXCEPT !.wd = r.wd, !.ti_made = @ + r.made]

\* a file loop without the check that the destination exists already
symlink_distro_file_relink(st0, u, f, env) ==
    LET st == [st0 EXCEPT !.reports = Append(@, st0.prog)]
        source_path == FileSrc(u.id, f)
        symlink_path == FilePath(f)
        r == create_symlink(st.wd, env, source_path, symlink_path)
    IN  IF ~src_exists(env, source_path)
          THEN Failed(st, MissingError(source_path, symlink_path))
        ELSE IF r.ret # "True"
          THEN Failed(st, UnableError(source_path, symlink_path))
        ELSE [st EXCEPT !.wd = r.wd, !.made = @ + r.made,
                        !.prog.num_success = @ + 1,
                        !.prog.items_left = @ - 1,
                        !.published_distro_files = Append(@, symlink_path)]

\* a file loop that counts a file already published as a success
symlink_distro_file_counting(st0, u, f, env) ==
    LET st == [st0 EXCEPT !.reports = Append(@, st0.prog)]
        source_path == FileSrc(u.id, f)
        symlink_path == FilePath(f)
        r == create_symlink(st.wd, env, source_path, symlink_path)
    IN  IF exists(st.wd, env, symlink_path) \/ (src_exists(env, source_path) /\ r.ret = "True")
          THEN [st EXCEPT !.wd = IF exists(st.wd, env, symlink_path) THEN @ ELSE r.wd,
                          !.made = IF exists(st.wd, env, symlink_path) THEN @ ELSE @ + r.made,
                          !.prog.num_success = @ + 1,
                          !.prog.items_left = @ - 1,
                          !.published_distro_files = Append(@, symlink_path)]
        ELSE IF ~src_exists(env, source_path)
          THEN Failed(st, MissingError(source_path, symlink_path))
        ELSE Failed(st, UnableError(source_path, symlink_path))

\* a file loop that does not list a file it finds published already
symlink_distro_file_unlisted(st0, u, f, env) ==
    LET st == [st0 EXCEPT !.reports = Append(@, st0.prog)]
        source_path == FileSrc(u.id, f)
        symlink_path == FilePath(f)
        r == create_symlink(st.wd, env, source_path, symlink_path)
    IN  IF exists(st.wd, env, symlink_path)
          THEN [st EXCEPT !.prog.items_left = @ - 1]
        ELSE IF ~src_exists(env, source_path)
          THEN Failed(st, MissingError(source_path, symlink_path))
        ELSE IF r.ret = "raise"
          THEN Failed(st, ExceptionError(source_path, symlink_path))
        ELSE IF r.ret = "False"
          THEN Failed(st, UnableError(source_path, symlink_path))
        ELSE [st EXCEPT !.wd = r.wd, !.made = @ + r.made,
                        !.prog.num_success = @ + 1,
                        !.prog.items_left = @ - 1,
                        !.published_distro_files = Append(@, symlink_path)]

\* one iteration of the loop over the files of a unit (lines 640-673)
symlink_distro_file(st0, u, f, env) ==
    LET st == [st0 EXCEPT !.reports = Append(@, st0.prog)]
        source_path == FileSrc(u.id, f)
        symlink_path == FilePath(f)
        r == create_symlink(st.wd, env, source_path, symlink_path)
    IN  IF exists(st.wd, env, symlink_path)
          THEN [st EXCEPT !.prog.items_left = @ - 1,
                          !.published_distro_files = Append(@, symlink_path)]
        ELSE IF ~src_exists(env, source_path)
          THEN Failed(st, MissingError(source_path, symlink_path))
        ELSE IF r.ret = "raise"
          THEN Failed(st, ExceptionError(source_path, symlink_path))
        ELSE IF r.ret = "False"
          THEN Failed(st, UnableError(source_path, symlink_path))
        ELSE [st EXCEPT !.wd = r.wd, !.made = @ + r.made,
                        !.prog.num_success = @ + 1,
                        !.prog.items_left = @ - 1,
                        !.published_distro_files = Append(@, symlink_path)]

\* what one iteration of the file loop found and did: st before it, nx after
file_log(st, nx, u, f, env) ==
    [nx EXCEPT !.log = Append(@, [unit |-> u.id, file |-> f,
                                  existed |-> exists(st.wd, env, FilePath(f)),
                                  before |-> st.prog, after |-> nx.prog,
                                  made |-> nx.made - st.made,
                                  listed_before |-> st.published_distro_files,
                                  listed_after |-> nx.published_distro_files])]

RECURSIVE symlink_distro_files(_, _, _, _, _)
symlink_distro_files(st, u, files, i, env) ==
    IF i > Len(files) THEN st
    ELSE symlink_distro_files(
             file_log(st, symlink_distro_file(st, u, files[i], env), u, files[i], env),
             u, files, i + 1, env)

\* scratchpad.update({KEY: {u.id: published_distro_files}}) puts a new dict,
\* holding this unit alone, under the key
update_scratchpad(sp, id, files) == [has |-> TRUE, m |-> (id :> files)]

\* line 674, after the loop over the files
record_published(d, u) ==
    [d EXCEPT !.scratchpad = update_scratchpad(@, u.id, d.published_distro_files),
              !.published = (u.id :> d.published_distro_files) @@ @]

\* lines 639-674, unless the tree-info link raised
after_treeinfo(c, u, env) ==
    IF c.raised THEN c
    ELSE record_published(
             symlink_distro_files([c EXCEPT !.published_distro_files = <<>>],
                                  u, distro_files(u), 1, env), u)

\* lines 620-638: u.metadata['files'] raises KeyError when the entry is absent
after_package_dir(a, u, env) ==
    IF a.raised THEN a
    ELSE IF ~u.has_files THEN [a EXCEPT !.raised = TRUE]
    ELSE after_treeinfo(
             symlink_treeinfo([a EXCEPT !.prog.items_total = Len(distro_files(u)),
                                        !.prog.items_left = Len(distro_files(u))],
                              u, env), u, env)

\* one iteration of the loop over the units (lines 609-674)
symlink_distro_unit(st, u, env) ==
    after_package_dir(prepare_package_dir(st, u, env), u, env)

RECURSIVE symlink_distro_units(_, _, _, _)
symlink_distro_units(st, units, i, env) ==
    IF i > Len(units) \/ st.raised THEN st
    ELSE symlink_distro_units(symlink_distro_unit(st, units[i], env), units, i + 1, env)

\* lines 675-680: the Packages alias
symlink_packages(st, env) ==
    LET r == create_symlink(st.wd, env, WD, PackagesPath)
    IN  IF st.raised \/ exists(st.wd, env, PackagesPath) THEN st
        ELSE IF r.ret = "raise" THEN [st EXCEPT !.raised = TRUE]
        ELSE IF r.ret = "False"
          THEN [st EXCEPT !.errors = Append(@, UnableError(WD, PackagesPath))]
        ELSE [st EXCEPT !.wd = r.wd]

UnitIds(units) == {units[i].id : i \in 1..Len(units)}
\* a return that, like handle_symlinks, leaves the record IN_PROGRESS and
\* does not report it again when there are errors
distro_return_unreported(st, sp) ==
    [raised |-> st.raised, status |-> ~st.raised /\ st.errors = <<>>,
     errors |-> st.errors, wd |-> st.wd,
     scratchpad |-> IF st.raised THEN sp ELSE st.scratchpad,
     package_dir |-> st.package_dir,
     prog |-> IF st.raised THEN st.prog
              ELSE IF st.errors # <<>> THEN [st.prog EXCEPT !.error_details = st.errors]
              ELSE [st.prog EXCEPT !.state = "FINISHED"],
     reports |-> IF st.raised \/ st.errors # <<>> THEN st.reports
                 ELSE Append(st.reports, [st.prog EXCEPT !.state = "FINISHED"]),
     published |-> st.published, made |-> st.made, ti_made |-> st.ti_made,
     log |-> st.log]

\* lines 681-689: the manifest is persisted, the last record reported
distro_return(st, sp) ==
    IF st.raised
      THEN [raised |-> TRUE, status |-> FALSE, errors |-> st.errors, wd |-> st.wd,
            scratchpad |-> sp, package_dir |-> st.package_dir,
            prog |-> st.prog, reports |-> st.reports,
            published |-> st.published, made |-> st.made, ti_made |-> st.ti_made,
            log |-> st.log]
    ELSE IF st.errors # <<>>
      THEN [raised |-> FALSE, status |-> FALSE, errors |-> st.errors, wd |-> st.wd,
            scratchpad |-> st.scratchpad, package_dir |-> st.package_dir,
            prog |-> [st.prog EXCEPT !.error_details = st.errors, !.state = "FAILED"],
            reports |-> Append(st.reports,
                          [st.prog EXCEPT !.error_details = st.errors, !.state = "FAILED"]),
            published |-> st.published, made |-> st.made, ti_made |-> st.ti_made,
            log |-> st.log]
    ELSE [raised |-> FALSE, status |-> TRUE, errors |-> <<>>, wd |-> st.wd,
          scratchpad |-> st.scratchpad, package_dir |-> st.package_dir,
          prog |-> [st.prog EXCEPT !.state = "FINISHED"],
          reports |-> Append(st.reports, [st.prog EXCEPT !.state = "FINISHED"]),
          published |-> st.published, made |-> st.made, ti_made |-> st.ti_made,
            log |-> st.log]

\* lines 602-608: the first record, then the orphan pass
distro_begin(o, pdir) ==
    [wd |-> o.wd, errors |-> <<>>, prog |-> init_progress,
     reports |-> <<init_progress>>, made |-> 0, ti_made |-> 0,
     scratchpad |-> o.scratchpad, package_dir |-> pdir, published |-> NoManifest,
     published_distro_files |-> <<>>, raised |-> o.raised, log |-> <<>>]

\* sp is the persisted scratchpad, pdir self.package_dir; the result holds
\* what the call returns (status, errors) or that it raised, and what it
\* leaves behind: the working tree, the persisted scratchpad, self.package_dir
symlink_distribution_unit_files(units, w, env, sp, pdir, first) ==
    distro_return(
        symlink_packages(
            symlink_distro_units(
                distro_begin(handle_orphaned_distributions(UnitIds(units), w, env, sp, first),
                             pdir),
                units, 1, env),
            env),
        sp)

---------------------------------------------------------------------------
(* The published links below the two protocol roots.  A relative path is a *)
(* sequence of characters; pub holds the pairs <<root, path>> at which a   *)
(* link to the working directory exists.                                   *)

Roots == {"http", "https"}

RepoId == <<"r">>

NoUrl == <<>>

RelativeUrls == {NoUrl, <<"/", "A">>, <<"B">>}

\* the operations below a root fail as env.fault says
PubFault(mode, root) == <<mode, <<root, "pub", 0>>>>

get_repo_relative_path(config) ==
    IF config.relative_url # NoUrl THEN config.relative_url ELSE RepoId

\* lines 379-380 and 467-468
strip_slash(relpath) ==
    IF Len(relpath) > 0 /\ relpath[1] = "/" THEN Tail(relpath) ELSE relpath

\* util.create_symlink(repo.working_dir, <root>/<relpath>)
create_publish_link(p, env, root, relpath) ==
    IF <<root, relpath>> \in p THEN [ret |-> "True", pub |-> p]
    ELSE IF env.fault = PubFault("raise", root) THEN [ret |-> "raise", pub |-> p]
    ELSE IF env.fault = PubFault("false", root) THEN [ret |-> "False", pub |-> p]
    ELSE [ret |-> "True", pub |-> p \cup {<<root, relpath>>}]

\* util.generate_listing_files(<root>, <root>/<relpath>): TRUE when it raises
generate_listing_files(env, root) == env.fault = PubFault("listing", root)

\* util.remove_repo_publish_dir(<root>, <root>/<relpath>)
remove_repo_publish_dir(p, env, root, relpath) ==
    IF env.fault = PubFault("oserror", root)
      THEN [raised |-> TRUE, pub |-> p]
      ELSE [raised |-> FALSE, pub |-> p \ {<<root, relpath>>}]

\* lines 393-394 and 396-397: one root of the path migration
remove_old_publish_dir(m, env, root, old_relative_path) ==
    IF m.raised \/ <<root, old_relative_path>> \notin m.pub THEN m
    ELSE remove_repo_publish_dir(m.pub, env, root, old_relative_path)

\* a migration that looks under the HTTPS root alone
clean_old_publish_dirs_https(p, env, rs) ==
    IF ~rs.has THEN [raised |-> FALSE, pub |-> p]
    ELSE remove_old_publish_dir([raised |-> FALSE, pub |-> p], env, "https",
                                rs.old_relative_path)
\* a clean-up that looks under the HTTP root only
clean_old_publish_dirs_http(p, env, rs) ==
    IF ~rs.has THEN [raised |-> FALSE, pub |-> p]
    ELSE remove_old_publish_dir([raised |-> FALSE, pub |-> p], env, "http",
                                rs.old_relative_path)

\* lines 389-397: the trees under the previous relative path are removed
clean_old_publish_dirs(p, env, rs) ==
    IF ~rs.has THEN [raised |-> FALSE, pub |-> p]
    ELSE remove_old_publish_dir(
             remove_old_publish_dir([raised |-> FALSE, pub |-> p], env, "https",
                                    rs.old_relative_path),
             env, "http", rs.old_relative_path)

NoOldPath == [has |-> FALSE, old_relative_path |-> NoUrl]

\* lines 401-402
write_old_path(relpath) == [has |-> TRUE, old_relative_path |-> relpath]

\* a protocol step that leaves the link of a disabled protocol in place
publish_protocol_keep(p, env, enabled, root, relpath) ==
    LET r == create_publish_link(p, env, root, relpath)
    IN  IF enabled
          THEN IF r.ret = "raise"
                 THEN [raised |-> FALSE, pub |-> p, state |-> "FAILED"]
               ELSE IF generate_listing_files(env, root)
                 THEN [raised |-> FALSE, pub |-> r.pub, state |-> "FAILED"]
               ELSE [raised |-> FALSE, pub |-> r.pub, state |-> "FINISHED"]
        ELSE [raised |-> FALSE, pub |-> p, state |-> "SKIPPED"]
\* a protocol step that does not report the end of a step that went well
publish_protocol_unfinished(p, env, enabled, root, relpath) ==
    LET r == create_publish_link(p, env, root, relpath)
    IN  IF enabled
          THEN IF r.ret = "raise"
                 THEN [raised |-> FALSE, pub |-> p, state |-> "FAILED"]
               ELSE IF generate_listing_files(env, root)
                 THEN [raised |-> FALSE, pub |-> r.pub, state |-> "FAILED"]
               ELSE [raised |-> FALSE, pub |-> r.pub, state |-> "IN_PROGRESS"]
        ELSE IF <<root, relpath>> \in p
          THEN [raised |-> remove_repo_publish_dir(p, env, root, relpath).raised,
                pub |-> remove_repo_publish_dir(p, env, root, relpath).pub,
                state |-> "SKIPPED"]
        ELSE [raised |-> FALSE, pub |-> p, state |-> "SKIPPED"]

\* lines 405-420 (root "https") and 423-438 (root "http"): the value that
\* create_symlink returns is not looked at; the removal of the link of a
\* disabled protocol is outside the try
publish_protocol(p, env, enabled, root, relpath) ==
    LET r == create_publish_link(p, env, root, relpath)
    IN  IF enabled
          THEN IF r.ret = "raise"
                 THEN [raised |-> FALSE, pub |-> p, state |-> "FAILED"]
               ELSE IF generate_listing_files(env, root)
                 THEN [raised |-> FALSE, pub |-> r.pub, state |-> "FAILED"]
               ELSE [raised |-> FALSE, pub |-> r.pub, state |-> "FINISHED"]
        ELSE IF <<root, relpath>> \in p
          THEN [raised |-> remove_repo_publish_dir(p, env, root, relpath).raised,
                pub |-> remove_repo_publish_dir(p, env, root, relpath).pub,
                state |-> "SKIPPED"]
        ELSE [raised |-> FALSE, pub |-> p, state |-> "SKIPPED"]

\* lines 473-480
distributor_removed(p, env, config) ==
    remove_old_publish_dir(
        remove_old_publish_dir([raised |-> FALSE, pub |-> p], env, "https",
                               strip_slash(get_repo_relative_path(config))),
        env, "http", strip_slash(get_repo_relative_path(config)))

---------------------------------------------------------------------------
(* publish_repo.  A configuration is a record [relative_url, http, https,  *)
(* skip]; of the skip list only 'distribution' and 'rpm' are modelled.     *)

SkipTags == {"distribution", "rpm"}

Configs == [relative_url : RelativeUrls, http : BOOLEAN, https : BOOLEAN,
            skip : SUBSET SkipTags]

InitialConfig == [relative_url |-> NoUrl, http |-> FALSE, https |-> TRUE, skip |-> {}]

\* what metadata.generate_metadata / generate_yum_metadata return:
\* (metadata_status, metadata_errors), the errors as their number
MetadataResults ==
    {[status |-> TRUE, errors |-> 0], [status |-> FALSE, errors |-> 1],
     [status |-> FALSE, errors |-> 0]}

NoMetadata == [status |-> FALSE, errors |-> 0]

\* lines 322-323 and 332-333: the locals before the two passes
publish_locals(w, sp, pdir) ==
    [raised |-> FALSE, wd |-> w, scratchpad |-> sp, package_dir |-> pdir,
     distro_units |-> <<>>, distro_errors |-> <<>>, pkg_units |-> <<>>,
     pkg_errors |-> <<>>, distribution |-> NotStarted, packages |-> NotStarted,
     steps |-> <<>>]

\* lines 326-330, with d what symlink_distribution_unit_files left
distribution_done(l, units, d) ==
    [l EXCEPT !.raised = d.raised, !.wd = d.wd, !.scratchpad = d.scratchpad,
              !.package_dir = d.package_dir, !.distro_units = units,
              !.distro_errors = d.errors, !.distribution = d.prog,
              !.steps = Append(@, "distribution")]

\* lines 324-330
publish_distribution(l, config, units, env, first) ==
    IF "distribution" \in config.skip THEN l
    ELSE distribution_done(l, units,
             symlink_distribution_unit_files(units, l.wd, env, l.scratchpad,
                                             l.package_dir, first))

\* lines 335-347, with h what handle_symlinks returned
packages_done(l, units, h) ==
    [l EXCEPT !.wd = h.wd, !.pkg_units = units, !.pkg_errors = h.errors,
              !.packages = h.prog, !.steps = Append(@, "packages")]

\* lines 334-347
publish_packages(l, config, units, env) ==
    IF l.raised \/ "rpm" \in config.skip THEN l
    ELSE packages_done(l, units, handle_symlinks(units, l.wd, env, l.package_dir))

\* lines 319-353: what publish_repo does between its two cancellation checks
publish_symlinks(config, distro_units, pkg_units, w, env, sp, pdir, first) ==
    publish_packages(
        publish_distribution(publish_locals(w, sp, pdir), config, distro_units, env, first),
        config, pkg_units, env)

\* lines 423-438, with hs and ht what the two protocol steps left
http_done(hs, ht, relpath) ==
    [raised |-> ht.raised, pub |-> ht.pub, repo_scratchpad |-> write_old_path(relpath),
     publish_https |-> hs.state, publish_http |-> ht.state,
     steps |-> <<"metadata", "migration", "write_old_path", "https", "http">>]

\* lines 404-438, with hs what the HTTPS step left
https_done(hs, env, config, relpath) ==
    IF hs.raised
      THEN [raised |-> TRUE, pub |-> hs.pub, repo_scratchpad |-> write_old_path(relpath),
            publish_https |-> hs.state, publish_http |-> "NOT_STARTED",
            steps |-> <<"metadata", "migration", "write_old_path", "https">>]
      ELSE http_done(hs, publish_protocol(hs.pub, env, config.http, "http", relpath), relpath)

\* lines 389-438, with mig what the path migration left
migration_done(mig, env, rs, config, relpath) ==
    IF mig.raised
      THEN [raised |-> TRUE, pub |-> mig.pub, repo_scratchpad |-> rs,
            publish_https |-> "NOT_STARTED", publish_http |-> "NOT_STARTED",
            steps |-> <<"metadata", "migration">>]
      ELSE https_done(publish_protocol(mig.pub, env, config.https, "https", relpath),
                      env, config, relpath)

\* lines 357-438: what publish_repo does after its second cancellation check
publish_links(p, env, rs, config) ==
    migration_done(clean_old_publish_dirs(p, env, rs), env, rs, config,
                   strip_slash(get_repo_relative_path(config)))

\* lines 440-452
publish_summary(l, config, m) ==
    [num_package_units_attempted |-> Len(l.pkg_units),
     num_package_units_published |-> Len(l.pkg_units) - Len(l.pkg_errors),
     num_package_units_errors |-> Len(l.pkg_errors),
     num_distribution_units_attempted |-> Len(l.distro_units),
     num_distribution_units_published |-> Len(l.distro_units) - Len(l.distro_errors),
     num_distribution_units_errors |-> Len(l.distro_errors),
     relative_path |-> strip_slash(get_repo_relative_path(config)),
     skip_metadata_update |-> (m.status = FALSE /\ m.errors = 0)]

\* a report that fails on a failed metadata generation too
build_report_metadata(l, config, m) ==
    [kind |-> IF l.pkg_errors \o l.distro_errors # <<>> \/ ~m.status
                THEN "failure" ELSE "success",
     summary |-> publish_summary(l, config, m),
     errors |-> l.pkg_errors \o l.distro_errors]

\* lines 453-459
build_report(l, config, m) ==
    [kind |-> IF l.pkg_errors \o l.distro_errors # <<>> THEN "failure" ELSE "success",
     summary |-> publish_summary(l, config, m),
     errors |-> l.pkg_errors \o l.distro_errors]

\* line 317: the check when publish_repo starts
canceled_at_start(flag) == flag

\* a check that is never taken
never_canceled(flag) == FALSE

\* line 355: the check after the symlinking passes and the errata
canceled_at_checkpoint(flag) == flag

\* lines 318 and 356: summary and details are still empty
CancelReport == [kind |-> "cancel"]

\* an exception leaves publish_repo: there is no report
ExceptionReport == [kind |-> "exception"]

---------------------------------------------------------------------------
(* The world around the distributor: the units the conduit returns and the *)
(* condition of the file system.  Both change only between invocations.    *)

RECURSIVE Arrangements(_)
Arrangements(S) ==
    {<<>>} \cup UNION {{<<x>> \o t : t \in Arrangements(S \ {x})} : x \in S}

CleanEnv == [missing |-> {}, fault |-> NoFault]

PkgUnitSeqs == Arrangements(Pkgs)

PkgFaultPaths ==
    {PkgPath(p) : p \in Pkgs} \cup {PkgDirPath(d, p) : d \in PackageDirs, p \in Pkgs}

PkgEnvs ==
    {[missing |-> m, fault |-> NoFault] : m \in SUBSET {PkgSrc(p) : p \in Pkgs}}
    \cup {[missing |-> {}, fault |-> <<mode, path>>] :
            mode \in {"false", "raise"}, path \in PkgFaultPaths}

DistroUnit(i, d, h) == [id |-> i, packagedir |-> d, has_files |-> h]

\* the distribution units of a repository: unit 1 may name a package
\* subdirectory, any unit may lack the 'files' entry
DistroUnits ==
    {DistroUnit(i, None, h) : i \in DistroIds, h \in BOOLEAN}
    \cup {DistroUnit(1, d, TRUE) : d \in PackageDirs}

DistroUnitSeqs ==
    {s \in UNION {[1..n -> DistroUnits] : n \in 0..MaxDistros} :
        \A i, j \in 1..Len(s) : i # j => s[i].id # s[j].id}

DistroFileSrcs == {FileSrc(i, i) : i \in DistroIds} \cup {FileSrc(i, i + 1) : i \in DistroIds}

TreeinfoPaths == {TopPath(TREE_INFO_LIST[i]) : i \in 1..Len(TREE_INFO_LIST)}

\* no tree-info file in any unit's storage / only the last name of the list
NoTreeinfo == {TreeinfoSrc(i, TREE_INFO_LIST[k]) : i \in DistroIds, k \in 1..Len(TREE_INFO_LIST)}
LastTreeinfo == {TreeinfoSrc(i, TREE_INFO_LIST[1]) : i \in DistroIds}

\* units without a package subdirectory, each with its two files
PlainDistroSeqs ==
    {[k \in 1..Len(a) |-> DistroUnit(a[k], None, TRUE)] : a \in Arrangements(DistroIds)}

\* one storage file missing, or one destination at which an operation fails
FileEnvs ==
    {CleanEnv}
    \cup {[missing |-> {x}, fault |-> NoFault] : x \in DistroFileSrcs}
    \cup {[missing |-> {}, fault |-> <<mode, FilePath(f)>>] :
            mode \in {"false", "raise", "oserror"}, f \in FileIds}
    \cup {[missing |-> {}, fault |-> <<mode, PackagesPath>>] : mode \in {"false", "raise"}}

\* the tree-info files of the storage, and the operations on the names at the
\* top of the working directory
TreeEnvs ==
    {CleanEnv}
    \cup {[missing |-> m, fault |-> NoFault] : m \in {NoTreeinfo, LastTreeinfo}}
    \cup {[missing |-> {}, fault |-> <<"raise", p>>] : p \in TreeinfoPaths}
    \cup {[missing |-> {}, fault |-> <<"oserror", TopPath(d)>>] : d \in PackageDirs}

---------------------------------------------------------------------------
(* validate_config and the auth bookkeeping.  A configuration handed to    *)
(* validate_config is a record [relative_url, http, https, opt]:           *)
(* relative_url is [type, s] with s the characters of a string, http and   *)
(* https are the type of the value ("None": key absent or None), opt maps  *)
(* every further key of the configuration to the class of its value.       *)

MaxUrlLen == 2

REQUIRED_CONFIG_KEYS == <<"relative_url", "http", "https">>

OPTIONAL_CONFIG_KEYS ==
    {"protected", "auth_cert", "auth_ca", "https_ca", "gpgkey", "checksum_type", "skip",
     "https_publish_dir", "http_publish_dir", "use_createrepo", "skip_pkg_tags"}

\* "a" stands for the alphanumerics, "." for every other character
Chars == {"a", "/", "."}

\* the class [a-zA-Z0-9/_-] of line 132
AllowedChars == {"a", "/"}

Strs(n) == UNION {[1..k -> Chars] : k \in 0..n}

\* re.match('[^a-zA-Z0-9/_-]+', s): a match starts at the first character
re_match_invalid(s) == Len(s) > 0 /\ s[1] \notin AllowedChars

\* the auth bookkeeping: the items of the repository's cert bundle and the
\* relative paths of the protected-repo listing
NoAuth == [cert |-> {}, protected |-> {}]

\* lines 119-147, for one of the required keys
required_key_error(config, key) ==
    IF key = "relative_url"
    THEN IF config.relative_url.type = None THEN "Missing required configuration key"
         ELSE IF config.relative_url.type # "str" THEN "relative_url should be a basestring"
         ELSE IF re_match_invalid(config.relative_url.s)
         THEN "relative_url must contain only alphanumerics, underscores, and dashes."
         ELSE None
    ELSE IF config[key] = None THEN "Missing required configuration key"
         ELSE IF config[key] # "bool" THEN "should be a boolean"
         ELSE None

\* lines 119-147: the required keys in the order of the list
RECURSIVE required_keys_error(_, _)
required_keys_error(config, i) ==
    IF i > Len(REQUIRED_CONFIG_KEYS) THEN None
    ELSE IF required_key_error(config, REQUIRED_CONFIG_KEYS[i]) # None
    THEN required_key_error(config, REQUIRED_CONFIG_KEYS[i])
    ELSE required_keys_error(config, i + 1)

\* lines 149-190, for one further key of the configuration
config_key_error(key, value) ==
    IF key \notin OPTIONAL_CONFIG_KEYS THEN "Configuration key is not supported"
    ELSE IF key \in {"protected", "use_createrepo"} /\ value # "bool"
    THEN "should be a boolean"
    ELSE IF key = "checksum_type" /\ value = "invalid" THEN "is not a valid checksum type"
    ELSE IF key = "skip" /\ value # "list" THEN "skip should be a dictionary"
    ELSE IF key \in {"auth_cert", "auth_ca"} /\ value = "invalid"
    THEN "is not a valid certificate"
    ELSE None

\* lines 148-190 without the test of line 149
config_keys_errors_supported(config) ==
    {config_key_error(k, config.opt[k]) : k \in DOMAIN config.opt \cap OPTIONAL_CONFIG_KEYS}
        \ {None}

\* lines 148-190: the loop returns at the first key it rejects, and the
\* keys of a dict come in any order: the messages the loop can return
config_keys_errors(config) ==
    {config_key_error(k, config.opt[k]) : k \in DOMAIN config.opt} \ {None}

\* lines 118, 183, 190: the bundle collected from the configuration
auth_cert_bundle(config) ==
    {IF k = "auth_cert" THEN "cert" ELSE "ca" : k \in DOMAIN config.opt \cap {"auth_cert", "auth_ca"}}

\* lines 252-262
process_repo_auth_certificate_bundle(auth, repo_relative_path, cert_bundle) ==
    IF cert_bundle # {}
    THEN [cert |-> auth.cert \cup cert_bundle,
          protected |-> auth.protected \cup {repo_relative_path}]
    ELSE [auth EXCEPT !.protected = @ \ {repo_relative_path}]

\* lines 197-204 and 205-212, for one of the two override keys
publish_dir_error(config, key) ==
    IF key \notin DOMAIN config.opt THEN None
    ELSE IF config.opt[key] = "missing" THEN "is not an existing directory"
    ELSE IF config.opt[key] = "readonly" THEN "Unable to read & write"
    ELSE None

\* lines 192-194
validated_relative_path(config) ==
    strip_slash(get_repo_relative_path([relative_url |-> config.relative_url.s]))

\* lines 191-224, with the auth bookkeeping a that line 195 has left
validate_config_publish(config, conflict, a) ==
    IF publish_dir_error(config, "https_publish_dir") # None
    THEN [ok |-> FALSE, msg |-> publish_dir_error(config, "https_publish_dir"), auth |-> a]
    ELSE IF publish_dir_error(config, "http_publish_dir") # None
    THEN [ok |-> FALSE, msg |-> publish_dir_error(config, "http_publish_dir"), auth |-> a]
    ELSE IF conflict
    THEN [ok |-> FALSE, msg |-> "Relative url conflicts with existing relative_url", auth |-> a]
    ELSE [ok |-> TRUE, msg |-> None, auth |-> a]

\* validate_config(repo, config, config_conduit): the results [ok, msg] it
\* can return and the auth bookkeeping it leaves; conflict says whether the
\* conduit finds another repository's distributor at the relative path
validate_config(config, conflict, auth) ==
    IF required_keys_error(config, 1) # None
    THEN {[ok |-> FALSE, msg |-> required_keys_error(config, 1), auth |-> auth]}
    ELSE IF config_keys_errors(config) # {}
    THEN {[ok |-> FALSE, msg |-> m, auth |-> auth] : m \in config_keys_errors(config)}
    ELSE {validate_config_publish(config, conflict,
              process_repo_auth_certificate_bundle(auth, validated_relative_path(config),
                                                   auth_cert_bundle(config)))}

\* lines 463-470: distributor_removed deletes the bundle and the listing entry
remove_repo_auth(auth, config) ==
    [cert |-> {},
     protected |-> auth.protected \ {strip_slash(get_repo_relative_path(config))}]

\* the values of relative_url: absent, not a string, or a string
UrlValues ==
    {[type |-> t, s |-> NoUrl] : t \in {None, "int"}}
    \cup {[type |-> "str", s |-> s] : s \in Strs(MaxUrlLen)}

FlagValues == {None, "bool", "str"}

NoOpt == [k \in {} |-> None]

\* one further key with a value of each class the code tells apart
OneOpt ==
    {[k \in {e[1]} |-> e[2]] :
        e \in {<<"bogus", "str">>, <<"gpgkey", "str">>,
               <<"protected", "bool">>, <<"protected", "str">>,
               <<"use_createrepo", "str">>, <<"checksum_type", "invalid">>,
               <<"skip", "list">>, <<"skip", "str">>,
               <<"auth_cert", "valid">>, <<"auth_cert", "invalid">>,
               <<"auth_ca", "valid">>, <<"auth_ca", "invalid">>,
               <<"https_publish_dir", "writable">>, <<"https_publish_dir", "missing">>,
               <<"https_publish_dir", "readonly">>,
               <<"http_publish_dir", "missing">>, <<"http_publish_dir", "readonly">>}}

\* an auth certificate together with a second key
TwoOpts ==
    {[k \in {"auth_cert", e[1]} |-> IF k = "auth_cert" THEN "valid" ELSE e[2]] :
        e \in {<<"auth_ca", "valid">>, <<"bogus", "str">>, <<"protected", "str">>,
               <<"https_publish_dir", "readonly">>, <<"http_publish_dir", "missing">>}}
    \cup {[k \in {"bogus", "skip"} |-> "str"]}

\* the relative urls the configurations with further keys are validated for
OptUrls == {NoUrl, <<"/", "a">>}

\* the configurations validate_config is called with
ValidateConfigs ==
    {[relative_url |-> u, http |-> h, https |-> hs, opt |-> NoOpt] :
        u \in UrlValues, h \in FlagValues, hs \in FlagValues}
    \cup {[relative_url |-> [type |-> "str", s |-> s], http |-> "bool", https |-> "bool",
           opt |-> o] : s \in OptUrls, o \in OneOpt \cup TwoOpts}

---------------------------------------------------------------------------
(* State machine *)

NoReport == [kind |-> "none"]

\* the state after construction, with p the links published already and
\* pkgs the package units of the repository
InitUnits(p, pkgs, distro) ==
    /\ canceled = FALSE
    /\ package_dir = None
    /\ wd = [x \in WdPaths |-> Absent]
    /\ pub = p
    /\ scratchpad = EmptyScratchpad
    /\ repo_scratchpad = NoOldPath
    /\ progress_status = InitialProgress
    /\ pc = "idle"
    /\ inv = [op |-> "init"]
    /\ report = NoReport
    /\ units_db = [distro |-> distro, pkgs |-> pkgs]
    /\ sysenv = CleanEnv
    /\ repo_config = InitialConfig
    /\ changes = 0
    /\ repo_auth = NoAuth

InitState(p, pkgs) == InitUnits(p, pkgs, <<>>)

InitWith(p) == InitState(p, <<>>)

Init == InitWith({})

\* the repository's package units change
AssociatePkgs(S) ==
    /\ pc = "idle"
    /\ changes < MaxChanges
    /\ changes' = changes + 1
    /\ \E s \in S \ {units_db.pkgs} : units_db' = [units_db EXCEPT !.pkgs = s]
    /\ UNCHANGED <<repo_auth, inv, canceled, package_dir, wd, pub, scratchpad, repo_scratchpad,
                   progress_status, pc, report, sysenv, repo_config>>

\* the repository's distribution units change
AssociateDistros(S) ==
    /\ pc = "idle"
    /\ changes < MaxChanges
    /\ changes' = changes + 1
    /\ \E s \in S \ {units_db.distro} : units_db' = [units_db EXCEPT !.distro = s]
    /\ UNCHANGED <<repo_auth, inv, canceled, package_dir, wd, pub, scratchpad, repo_scratchpad,
                   progress_status, pc, report, sysenv, repo_config>>

\* the storage or the condition of the file system changes
Environment(E) ==
    /\ pc = "idle"
    /\ changes < MaxChanges
    /\ changes' = changes + 1
    /\ \E e \in E \ {sysenv} : sysenv' = e
    /\ UNCHANGED <<repo_auth, inv, canceled, package_dir, wd, pub, scratchpad, repo_scratchpad,
                   progress_status, pc, report, units_db, repo_config>>

\* handle_symlinks(units, repo.working_dir) called on its own
CallHandleSymlinks ==
    /\ pc = "idle"
    /\ LET r == handle_symlinks(units_db.pkgs, wd, sysenv, package_dir)
       IN  /\ wd' = r.wd
           /\ inv' = [op |-> "handle_symlinks", units |-> units_db.pkgs,
                      env |-> sysenv, package_dir |-> package_dir, status |-> r.status,
                      errors |-> r.errors, prog |-> r.prog, reports |-> r.reports,
                      made |-> r.made]
    /\ UNCHANGED <<repo_auth, changes, canceled, package_dir, pub, scratchpad, repo_scratchpad,
                   progress_status, pc, report, units_db, sysenv, repo_config>>

\* the orphaned ids of the manifest, or 0 when there is none
FirstOrphans(sp, units) ==
    IF sp.has /\ DOMAIN sp.m \ UnitIds(units) # {}
      THEN DOMAIN sp.m \ UnitIds(units) ELSE {0}

\* symlink_distribution_unit_files(units, repo.working_dir, conduit) called on its own
CallSymlinkDistributionUnitFiles ==
    /\ pc = "idle"
    /\ \E first \in FirstOrphans(scratchpad, units_db.distro) :
         LET r == symlink_distribution_unit_files(units_db.distro, wd, sysenv,
                                                  scratchpad, package_dir, first)
         IN  /\ wd' = r.wd
             /\ scratchpad' = r.scratchpad
             /\ package_dir' = r.package_dir
             /\ inv' = [op |-> "symlink_distribution_unit_files", units |-> units_db.distro,
                        env |-> sysenv, raised |-> r.raised, status |-> r.status, errors |-> r.errors,
                        prog |-> r.prog, reports |-> r.reports, made |-> r.made,
                        ti_made |-> r.ti_made, published |-> r.published, log |-> r.log]
    /\ UNCHANGED <<repo_auth, changes, canceled, pub, repo_scratchpad, progress_status, pc, report,
                   units_db, sysenv, repo_config>>

\* the package pass, on a repository whose distribution pass is run with at
\* most one unit
SymlinksDistroSeqs == {s \in DistroUnitSeqs : Len(s) <= 1 /\ \A i \in 1..Len(s) : s[i].has_files /\ s[i].id = 1}

NextSymlinks ==
    \/ AssociatePkgs(PkgUnitSeqs)
    \/ Environment(PkgEnvs)
    \/ CallHandleSymlinks
    \/ AssociateDistros(SymlinksDistroSeqs)
    \/ CallSymlinkDistributionUnitFiles

SpecSymlinks == Init /\ [][NextSymlinks]_vars

\* an operation on one destination of a package link fails
PkgLinkEnvs == {e \in PkgEnvs : e.missing = {}}

\* handle_symlinks finds a repository with any package units
InitPackages == \E s \in PkgUnitSeqs : InitState({}, s)

\* the package pass over the units the repository has, after distribution
\* passes that set the package subdirectory
NextPackages ==
    \/ Environment(PkgLinkEnvs)
    \/ AssociateDistros(SymlinksDistroSeqs)
    \/ CallSymlinkDistributionUnitFiles
    \/ CallHandleSymlinks

SpecPackages == InitPackages /\ [][NextPackages]_vars

NextDistro ==
    \/ AssociateDistros(PlainDistroSeqs)
    \/ Environment(FileEnvs \cup TreeEnvs)
    \/ CallSymlinkDistributionUnitFiles

SpecDistro == Init /\ [][NextDistro]_vars

\* the distribution pass over units any of which may lack the 'files' entry
ManifestDistroSeqs ==
    {s \in DistroUnitSeqs :
        \A i \in 1..Len(s) : s[i].id = i /\ s[i].packagedir = None}

NextManifest ==
    \/ AssociateDistros(ManifestDistroSeqs)
    \/ CallSymlinkDistributionUnitFiles

SpecManifest == Init /\ [][NextManifest]_vars

\* unit sequences whose unit 1 names a package subdirectory, and the
\* environments in which preparing that directory fails (lines 611-619)
PackageDirSeqs ==
    {s \in DistroUnitSeqs :
        /\ \A i \in 1..Len(s) : s[i].has_files
        /\ \E i \in 1..Len(s) : s[i].packagedir # None}

PackageDirEnvs ==
    {CleanEnv}
    \cup {[missing |-> {}, fault |-> <<"oserror", TopPath(d)>>] : d \in PackageDirs}

NextPackageDir ==
    \/ AssociateDistros(PackageDirSeqs)
    \/ Environment(PackageDirEnvs)
    \/ CallSymlinkDistributionUnitFiles

SpecPackageDir == Init /\ [][NextPackageDir]_vars

\* the units and the file system of a repository that is published
PublishPkgSeqs == {[k \in 1..n |-> k] : n \in 0..MaxPkgs}

PublishDistroSeqs == {[k \in 1..n |-> DistroUnit(k, None, TRUE)] : n \in 0..MaxDistros}

PublishEnvs ==
    {CleanEnv}
    \cup {[missing |-> {x}, fault |-> NoFault] : x \in {PkgSrc(1), FileSrc(1, 1)}}
    \cup {[missing |-> {}, fault |-> PubFault(mode, root)] :
            mode \in {"raise", "false", "listing", "oserror"}, root \in Roots}

\* the repository is reconfigured: the relative url, the two protocol flags
\* or the skip list
Reconfigure ==
    /\ pc = "idle"
    /\ changes < MaxChanges
    /\ changes' = changes + 1
    /\ \E c \in Configs \ {repo_config} :
         /\ \/ c.http = repo_config.http /\ c.https = repo_config.https /\ c.skip = repo_config.skip
            \/ c.relative_url = repo_config.relative_url /\ c.skip = repo_config.skip
            \/ c.relative_url = repo_config.relative_url /\ c.http = repo_config.http
                 /\ c.https = repo_config.https
         /\ repo_config' = c
    /\ UNCHANGED <<repo_auth, inv, canceled, package_dir, wd, pub, scratchpad, repo_scratchpad,
                   progress_status, pc, report, units_db, sysenv>>

\* cancel_publish_repo (lines 294-297)
CancelPublishRepo ==
    /\ changes < MaxChanges
    /\ changes' = changes + 1
    /\ canceled' = TRUE
    /\ UNCHANGED <<repo_auth, inv, package_dir, wd, pub, scratchpad, repo_scratchpad, progress_status,
                   pc, report, units_db, sysenv, repo_config>>

\* what publish_repo holds at its second cancellation check; prev is the
\* publish_repo invocation right before this one, pub_before the published
\* links this one found
PublishLocals(l) ==
    [op |-> "publish_repo", config |-> repo_config, env |-> sysenv,
     prev |-> IF inv.op = "publish_repo"
                THEN [completed |-> report.kind \in {"success", "failure"},
                      config |-> inv.config]
                ELSE [completed |-> FALSE, config |-> InitialConfig],
     pub_before |-> pub, changes |-> changes,
     distro_units |-> l.distro_units, distro_errors |-> l.distro_errors,
     pkg_units |-> l.pkg_units, pkg_errors |-> l.pkg_errors,
     metadata |-> NoMetadata, steps |-> l.steps]

\* publish_repo up to its second cancellation check (lines 300-353)
PublishRepoBegin ==
    /\ pc = "idle"
    /\ IF canceled_at_start(canceled)
         THEN /\ progress_status' = InitialProgress
              /\ report' = CancelReport
              /\ inv' = PublishLocals(publish_locals(wd, scratchpad, package_dir))
              /\ UNCHANGED <<wd, scratchpad, package_dir, pc>>
         ELSE \E first \in FirstOrphans(scratchpad, units_db.distro) :
                LET l == publish_symlinks(repo_config, units_db.distro, units_db.pkgs, wd,
                                          sysenv, scratchpad, package_dir, first)
                IN  /\ wd' = l.wd
                    /\ scratchpad' = l.scratchpad
                    /\ package_dir' = l.package_dir
                    /\ progress_status' = [InitialProgress EXCEPT
                                             !.distribution = l.distribution,
                                             !.packages = l.packages]
                    /\ inv' = PublishLocals(l)
                    /\ pc' = IF l.raised THEN "idle" ELSE "checkpoint"
                    /\ report' = IF l.raised THEN ExceptionReport ELSE NoReport
    /\ UNCHANGED <<repo_auth, canceled, pub, repo_scratchpad, units_db, sysenv, repo_config, changes>>

\* publish_repo from its second cancellation check on (lines 355-459)
PublishRepoEnd ==
    /\ pc = "checkpoint"
    /\ pc' = "idle"
    /\ IF canceled_at_checkpoint(canceled)
         THEN /\ report' = CancelReport
              /\ inv' = [inv EXCEPT !.changes = changes]
              /\ UNCHANGED <<pub, repo_scratchpad, progress_status>>
         ELSE \E m \in MetadataResults :
                LET r == publish_links(pub, sysenv, repo_scratchpad, inv.config)
                IN  /\ pub' = r.pub
                    /\ repo_scratchpad' = r.repo_scratchpad
                    /\ progress_status' = [progress_status EXCEPT
                                             !.publish_https = [state |-> r.publish_https],
                                             !.publish_http = [state |-> r.publish_http]]
                    /\ inv' = [inv EXCEPT !.metadata = m, !.steps = @ \o r.steps,
                                           !.changes = changes]
                    /\ report' = IF r.raised THEN ExceptionReport
                                 ELSE build_report(inv, inv.config, m)
    /\ UNCHANGED <<repo_auth, canceled, package_dir, wd, scratchpad, units_db, sysenv, repo_config,
                   changes>>

\* distributor_removed(repo, config), with a configuration of any relative url
DistributorRemoved ==
    /\ pc = "idle"
    /\ \E url \in RelativeUrls :
         LET config == [repo_config EXCEPT !.relative_url = url]
             r == distributor_removed(pub, sysenv, config)
         IN  /\ pub' = r.pub
             /\ inv' = [op |-> "distributor_removed", config |-> config,
                        raised |-> r.raised]
             /\ repo_auth' = remove_repo_auth(repo_auth, config)
    /\ UNCHANGED <<canceled, package_dir, wd, scratchpad, repo_scratchpad, progress_status,
                   pc, report, units_db, sysenv, repo_config, changes>>

\* validate_config(repo, config, config_conduit) with any configuration
ValidateConfig ==
    /\ pc = "idle"
    /\ \E config \in ValidateConfigs, conflict \in BOOLEAN :
         \E r \in validate_config(config, conflict, repo_auth) :
             /\ repo_auth' = r.auth
             /\ inv' = [op |-> "validate_config", config |-> config, conflict |-> conflict,
                        auth_before |-> repo_auth, ok |-> r.ok, msg |-> r.msg]
    /\ UNCHANGED <<canceled, package_dir, wd, pub, scratchpad, repo_scratchpad,
                   progress_status, pc, report, units_db, sysenv, repo_config, changes>>

NextValidate == ValidateConfig

SpecValidate == Init /\ [][NextValidate]_vars

Next ==
    \/ AssociatePkgs(PublishPkgSeqs)
    \/ AssociateDistros(PublishDistroSeqs)
    \/ Environment(PublishEnvs)
    \/ Reconfigure
    \/ CancelPublishRepo
    \/ PublishRepoBegin
    \/ PublishRepoEnd
    \/ DistributorRemoved

\* a repository that was published under its id before the distributor
\* kept the previous relative path in the repo scratchpad
LegacyLinks == {<<root, RepoId>> : root \in Roots}

\* publish_repo finds a repository never published, or one with such links
InitPublish == \E p \in {{}, LegacyLinks} : InitWith(p)

Spec == InitPublish /\ [][Next]_vars

\* publishes of a repository that starts with one package and a distribution
\* unit naming a package subdirectory
InitSubdir == \E d \in PackageDirs : InitUnits({}, <<1>>, <<DistroUnit(1, d, TRUE)>>)

NextSubdir ==
    \/ AssociatePkgs(PublishPkgSeqs)
    \/ AssociateDistros(SymlinksDistroSeqs)
    \/ Reconfigure
    \/ PublishRepoBegin
    \/ PublishRepoEnd

SpecSubdir == InitSubdir /\ [][NextSubdir]_vars

\* publishes in which any of the sources of the first package and of the
\* first distribution unit may be missing, or the Packages alias fails
ReportEnvs ==
    {[missing |-> m, fault |-> NoFault] :
        m \in SUBSET {PkgSrc(1), FileSrc(1, 1), FileSrc(1, 2)}}
    \cup {[missing |-> {}, fault |-> <<"false", PackagesPath>>]}

InitReport == \E s \in PublishPkgSeqs : InitState({}, s)

NextReport ==
    \/ AssociateDistros(PublishDistroSeqs)
    \/ Environment(ReportEnvs)
    \/ PublishRepoBegin
    \/ PublishRepoEnd

SpecReport == InitReport /\ [][NextReport]_vars

---------------------------------------------------------------------------
(* Claims *)

MissingPkgs == {i \in 1..Len(inv.units) : ~src_exists(inv.env, PkgSrc(inv.units[i]))}

AfterHandleSymlinks == pc = "idle" /\ inv.op = "handle_symlinks"

\* C2: partial failure isolation.  After handle_symlinks over N package
\* units of which exactly one has no storage path, with no link creation
\* failing, num_error = 1, num_success = N - 1, the status is False with
\* exactly one error tuple, and every other unit has its symlink.
C2_PartialFailureIsolation ==
    (AfterHandleSymlinks /\ Cardinality(MissingPkgs) = 1 /\ inv.env.fault = NoFault)
    => /\ inv.prog.num_error = 1
       /\ inv.prog.num_success = Len(inv.units) - 1
       /\ inv.status = FALSE
       /\ Len(inv.errors) = 1
       /\ \A i \in 1..Len(inv.units) \ MissingPkgs :
            wd[PkgPath(inv.units[i])] = LinkTo(PkgSrc(inv.units[i]))

\* the missing unit comes first and the unit after it is linked
C2_Witness ==
    /\ AfterHandleSymlinks
    /\ Len(inv.units) >= 2
    /\ MissingPkgs = {1}
    /\ inv.env.fault = NoFault
    /\ inv.prog.num_success = Len(inv.units) - 1
    /\ islink(wd, PkgPath(inv.units[2]))

AfterDistro == pc = "idle" /\ inv.op = "symlink_distribution_unit_files"

\* a step that is a call of symlink_distribution_unit_files on its own
DistroCallStep ==
    /\ pc = "idle" /\ pc' = "idle"
    /\ changes' = changes
    /\ inv'.op = "symlink_distribution_unit_files"

DeclaredPaths(u) == {FilePath(distro_files(u)[k]) : k \in 1..Len(distro_files(u))}

\* C3: orphan reclamation.  When units U1 and U2 were published together
\* and the next distribution publish runs with U2 alone, then after it every
\* symlink U1 produced that U2 does not declare is absent, the persisted
\* manifest has no entry for U1, and every file of U2 is still present.
C3_OrphanReclamation ==
    [][\A u1, u2 \in DistroUnits :
         ( /\ DistroCallStep
           /\ AfterDistro /\ ~inv.raised
           /\ u1.id # u2.id
           /\ inv.units \in {<<u1, u2>>, <<u2, u1>>}
           /\ units_db.distro = <<u2>> )
         => /\ \A p \in Range(inv.published[u1.id]) \ DeclaredPaths(u2) : ~lexists(wd', p)
            /\ u1.id \notin DOMAIN scratchpad'.m
            /\ \A p \in DeclaredPaths(u2) : lexists(wd, p) => lexists(wd', p)]_vars

\* the second of two publishes of one unit sequence in one unchanged world,
\* both of which returned
Republished ==
    /\ DistroCallStep
    /\ AfterDistro /\ ~inv.raised
    /\ inv.units = units_db.distro /\ inv.env = sysenv
    /\ ~inv'.raised

C6_SuccessEqualsTotal ==
    [][Republished => inv'.prog.num_success = inv'.prog.items_total]_vars

\* C6 amended: on the second publish of an unchanged unit sequence the
\* distribution progress record ends with num_success = 0 and items_left = 0:
\* a file that is already published counts neither as success nor as error.
C6_NoSuccessCounted ==
    [][Republished => (inv'.prog.num_success = 0 /\ inv'.prog.items_left = 0)]_vars

\* a publish that found both files of its last unit published already
C6_Witness ==
    /\ AfterDistro /\ ~inv.raised
    /\ inv.units # <<>>
    /\ inv.made = 0 /\ inv.errors = <<>>
    /\ inv.prog.items_total = 2
    /\ inv.prog.num_success = 0
    /\ inv.prog.items_left = 0
    /\ Len(inv.published[inv.units[Len(inv.units)].id]) = 2

AfterPublish == pc = "idle" /\ inv.op = "publish_repo"

\* the last publish_repo returned a success or a failure report
Returned == AfterPublish /\ report.kind \in {"success", "failure"}

RelPath(config) == strip_slash(get_repo_relative_path(config))

\* C1: the report of a publish_repo that was not cancelled is a failure
\* report exactly when the package errors followed by the distribution errors
\* are not empty, and a success report otherwise, whatever the metadata
\* generation returned and whatever the states of the two protocol steps.
C1_FailureIffErrors ==
    Returned => /\ report.kind = "failure" <=> inv.pkg_errors \o inv.distro_errors # <<>>
                /\ report.errors = inv.pkg_errors \o inv.distro_errors
                /\ report.summary.num_package_units_errors = Len(inv.pkg_errors)
                /\ report.summary.num_distribution_units_errors = Len(inv.distro_errors)

\* a success report of a publish whose metadata generation returned errors
\* and whose HTTPS step failed
C1_Witness ==
    /\ Returned
    /\ report.kind = "success"
    /\ inv.metadata = [status |-> FALSE, errors |-> 1]
    /\ progress_status.publish_https.state = "FAILED"

\* a step that is publish_repo up to its second cancellation check
BeginStep == pc = "idle" /\ changes' = changes /\ inv'.op = "publish_repo"

\* a step that is publish_repo from its second cancellation check on
EndStep == pc = "checkpoint" /\ pc' = "idle"

\* a step in which publish_repo runs to its end and returns a report
CompletedStep == EndStep /\ report'.kind \in {"success", "failure"}

\* C9: cancellation checkpoints.  With the flag set when publish_repo starts
\* it returns a cancel report and changes no link, no scratchpad value and no
\* manifest entry; with the flag set at the check after the symlinking it
\* returns a cancel report without metadata dispatch, path migration,
\* previous-path write or protocol step, and the links made stay in place.
C9_CancellationCheckpoints ==
    [][/\ (BeginStep /\ canceled)
          => /\ report' = CancelReport /\ pc' = "idle"
             /\ inv'.steps = <<>>
             /\ UNCHANGED <<wd, pub, scratchpad, repo_scratchpad>>
       /\ (EndStep /\ canceled)
          => /\ report' = CancelReport
             /\ inv'.steps = inv.steps
             /\ Range(inv'.steps) \subseteq {"distribution", "packages"}
             /\ UNCHANGED <<wd, pub, scratchpad, repo_scratchpad>>]_vars

\* a publish cancelled at the second check, after it linked a package
C9_Witness ==
    /\ AfterPublish
    /\ report = CancelReport
    /\ inv.steps = <<"distribution", "packages">>
    /\ islink(wd, PkgPath(1))
    /\ pub = inv.pub_before
    /\ ~repo_scratchpad.has

\* a completed publish right after a completed publish under another
\* relative path, with the same protocol flags
Migrated ==
    /\ CompletedStep
    /\ inv.prev.completed
    /\ RelPath(inv.prev.config) # RelPath(inv.config)
    /\ inv.prev.config.http = inv.config.http
    /\ inv.prev.config.https = inv.config.https

Enabled(config, root) == IF root = "http" THEN config.http ELSE config.https

\* the link creation below the root fails
LinkFails(env, root) == env.fault \in {PubFault("raise", root), PubFault("false", root)}

\* C4 as stated: after a completed publish under A and then one under B the
\* tree at A is absent under both roots, the tree at B is present under every
\* enabled root and the stored previous path is B; every completed publish
\* overwrites the stored previous path with its own.
C4_PathMigration ==
    [][/\ Migrated
          => /\ \A root \in Roots : <<root, RelPath(inv.prev.config)>> \notin pub'
             /\ \A root \in Roots :
                  Enabled(inv.config, root) => <<root, RelPath(inv.config)>> \in pub'
             /\ repo_scratchpad' = write_old_path(RelPath(inv.config))
       /\ CompletedStep => repo_scratchpad' = write_old_path(RelPath(inv.config))]_vars

\* C4 amended: after a completed publish under A and then one under B the
\* tree at A is absent under both roots, the tree at B is present under every
\* enabled root at which the link creation did not fail, and the stored
\* previous path is B; every completed publish overwrites the stored previous
\* path with its own.
C4_PathMigrationWhereLinked ==
    [][/\ Migrated
          => /\ \A root \in Roots : <<root, RelPath(inv.prev.config)>> \notin pub'
             /\ \A root \in Roots :
                  (Enabled(inv.config, root) /\ ~LinkFails(sysenv, root))
                  => <<root, RelPath(inv.config)>> \in pub'
             /\ repo_scratchpad' = write_old_path(RelPath(inv.config))
       /\ CompletedStep => repo_scratchpad' = write_old_path(RelPath(inv.config))]_vars

\* the second publish found the tree at A, removed it and published at B
C4_Witness ==
    /\ Returned
    /\ inv.prev.completed
    /\ RelPath(inv.prev.config) # RelPath(inv.config)
    /\ inv.prev.config.http = inv.config.http /\ inv.prev.config.https = inv.config.https
    /\ \E root \in Roots :
         /\ <<root, RelPath(inv.prev.config)>> \in inv.pub_before
         /\ <<root, RelPath(inv.prev.config)>> \notin pub
         /\ <<root, RelPath(inv.config)>> \in pub
    /\ repo_scratchpad = write_old_path(RelPath(inv.config))

\* a completed publish with the first root enabled and the other disabled,
\* right after a completed publish with the flags the other way round
Toggled(on, off) ==
    /\ inv.prev.completed
    /\ Enabled(inv.prev.config, off) /\ ~Enabled(inv.prev.config, on)
    /\ Enabled(inv.config, on) /\ ~Enabled(inv.config, off)

StepSucceeds(env, root) ==
    env.fault \notin {PubFault(mode, root) : mode \in {"raise", "false", "listing"}}

C8_HttpStepAttempted ==
    (AfterPublish /\ "https" \in Range(inv.steps)) => "http" \in Range(inv.steps)

\* C10: after distributor_removed returns, no published tree of a repository
\* that publish_repo has published exists under the HTTP root or the HTTPS
\* root, whatever relative path the configuration passed to it names.
C10_NoPublishedTree ==
    (pc = "idle" /\ inv.op = "distributor_removed" /\ ~inv.raised /\ repo_scratchpad.has)
    => pub = {}

---------------------------------------------------------------------------
(* validate_config *)

\* validate_config has returned
AfterValidate == inv.op = "validate_config"

\* relative_url is a string with a character outside alphanumerics, '/',
\* '_' and '-' at some position
HasInvalidChar ==
    /\ inv.config.relative_url.type = "str"
    /\ \E i \in 1..Len(inv.config.relative_url.s) :
           inv.config.relative_url.s[i] \notin AllowedChars

\* C11: validate_config returns ok=False for every relative_url string that
\* has a character outside alphanumerics, '/', '_' and '-', at whatever
\* position of the string the character stands
C11_InvalidCharsRejected == (AfterValidate /\ HasInvalidChar) => ~inv.ok

RequiredPresent ==
    /\ inv.config.relative_url.type # None
    /\ inv.config.http # None
    /\ inv.config.https # None

KeysSupported == DOMAIN inv.config.opt \subseteq OPTIONAL_CONFIG_KEYS

C13_RejectionChangesNothing == (AfterValidate /\ ~inv.ok) => repo_auth = inv.auth_before

---------------------------------------------------------------------------
(* The progress record of the package pass *)

\* the counters of a progress record add up
Balanced(prog) == prog.num_success + prog.num_error + prog.items_left = prog.items_total

\* C14: in handle_symlinks every unit, whatever its outcome, adds one to
\* exactly one of num_success / num_error and takes one from items_left:
\* in every record reported while the units are processed and in the last
\* record num_success + num_error + items_left = items_total, and items_left
\* is 0 at the end
C14_OneCounterPerUnit ==
    AfterHandleSymlinks =>
        /\ \A i \in 2..Len(inv.reports) :
               Balanced([inv.reports[i] EXCEPT !.items_total = Len(inv.units)])
        /\ Balanced(inv.prog)
        /\ inv.prog.items_left = 0
        /\ inv.prog.items_total = Len(inv.units)

\* C15: with a package subdirectory set, handle_symlinks attempts the second
\* symlink target_dir/<package_dir>/relative_path for every unit whose
\* storage path exists, whether or not the first link was created: after
\* the call the link is there or an error tuple names it
C15_SecondLinkAttempted ==
    (AfterHandleSymlinks /\ inv.package_dir # None)
    => \A i \in 1..Len(inv.units) \ MissingPkgs :
           \/ wd[realpath(wd, PkgDirPath(inv.package_dir, inv.units[i]))]
                  = LinkTo(PkgSrc(inv.units[i]))
           \/ \E k \in 1..Len(inv.errors) :
                  inv.errors[k][2] = PkgDirPath(inv.package_dir, inv.units[i])

\* C16: when the package pass of publish_repo ends with an error for some
\* unit, the progress record of the packages phase has the state FAILED and
\* the later phases (metadata, path migration, protocol steps) still run
C16_PackagesPhaseFailed ==
    (Returned /\ inv.pkg_errors # <<>>)
    => /\ progress_status.packages.state = "FAILED"
       /\ {"metadata", "migration", "https", "http"} \subseteq Range(inv.steps)

---------------------------------------------------------------------------
(* The manifest of the distribution pass *)

\* C17: after a distribution publish over the units U1..Un has returned,
\* the persisted manifest has an entry for every Ui, and the entry of Ui is
\* the list of the destination paths produced or found published for Ui
C17_ManifestHoldsEveryUnit ==
    (AfterDistro /\ ~inv.raised)
    => \A i \in 1..Len(inv.units) :
           /\ scratchpad.has
           /\ inv.units[i].id \in DOMAIN scratchpad.m
           /\ scratchpad.m[inv.units[i].id] = inv.published[inv.units[i].id]

\* C18: the manifest is persisted after the files of each unit are processed
\* and before the next unit begins: when the publish stops after unit k, the
\* persisted manifest holds the entries of the units 1..k
C18_ManifestPersistedPerUnit ==
    (AfterDistro /\ inv.raised)
    => \A id \in DOMAIN inv.published :
           /\ scratchpad.has
           /\ id \in DOMAIN scratchpad.m
           /\ scratchpad.m[id] = inv.published[id]

\* the ids the persisted manifest holds that no current unit has
Orphans == IF scratchpad.has THEN DOMAIN scratchpad.m \ UnitIds(units_db.distro) ELSE {}

\* C19: in every distribution publish the orphan pass completes: the
\* symlinks of every orphaned id are removed and its entry is deleted from
\* the manifest, before the links of the current units are made
C19_OrphanPassCompletes ==
    [][(DistroCallStep /\ sysenv.fault = NoFault)
       => \A id \in Orphans :
              /\ \A k \in 1..Len(scratchpad.m[id]) :
                     islink(wd, scratchpad.m[id][k])
                         => wd'[scratchpad.m[id][k]] # wd[scratchpad.m[id][k]]
              /\ id \notin DOMAIN scratchpad'.m
              /\ ~inv'.raised]_vars

\* C20: a distribution unit whose metadata has no 'files' entry is processed
\* as a unit with no files: no exception leaves the call, no error tuple is
\* recorded for the unit, its manifest entry is the empty list and the units
\* after it are processed
C20_NoFilesIsZeroFiles ==
    [][(DistroCallStep /\ sysenv = CleanEnv /\ Orphans = {})
       => \A i \in 1..Len(units_db.distro) :
              ~units_db.distro[i].has_files
              => /\ ~inv'.raised
                 /\ \A k \in 1..Len(inv'.errors) :
                        inv'.errors[k][1][2] # units_db.distro[i].id
                 /\ units_db.distro[i].id \in DOMAIN inv'.published
                 /\ inv'.published[units_db.distro[i].id] = <<>>
                 /\ \A j \in (i + 1)..Len(units_db.distro) :
                        units_db.distro[j].id \in DOMAIN inv'.published]_vars

\* C21: in the distribution pass a declared file whose destination exists
\* already changes neither num_success nor num_error, takes one from
\* items_left, has its destination appended to the list of paths of the unit
\* and makes no link
C21_ExistingFileSkipped ==
    AfterDistro
    => \A k \in 1..Len(inv.log) :
           inv.log[k].existed
           => /\ inv.log[k].after.num_success = inv.log[k].before.num_success
              /\ inv.log[k].after.num_error = inv.log[k].before.num_error
              /\ inv.log[k].after.items_left = inv.log[k].before.items_left - 1
              /\ inv.log[k].listed_after
                     = Append(inv.log[k].listed_before, FilePath(inv.log[k].file))
              /\ inv.log[k].made = 0

\* the second unit of a call found a file linked by the first, after the
\* first had counted a success
C21_Witness ==
    /\ AfterDistro
    /\ \E k \in 1..Len(inv.log) :
           /\ inv.log[k].existed
           /\ inv.log[k].before.num_success > 0
           /\ inv.log[k].before.items_left > 0

\* preparing the package subdirectory of unit i fails in the current state
PackageDirFails(i) ==
    /\ units_db.distro[i].packagedir # None
    /\ sysenv.fault = <<"oserror", TopPath(units_db.distro[i].packagedir)>>
    /\ \/ islink(wd, TopPath(units_db.distro[i].packagedir))
       \/ ~exists(wd, sysenv, TopPath(units_db.distro[i].packagedir))

\* C22: a failure while preparing the package subdirectory of one unit is
\* caught at the unit boundary: no exception leaves the call, an error tuple
\* is recorded, the units after it are processed and the manifest is
\* persisted
C22_PackageDirFailureCaught ==
    [][(DistroCallStep /\ Orphans = {})
       => \A i \in 1..Len(units_db.distro) :
              PackageDirFails(i)
              => /\ ~inv'.raised
                 /\ inv'.errors # <<>>
                 /\ \A j \in (i + 1)..Len(units_db.distro) :
                        units_db.distro[j].id \in DOMAIN inv'.published
                 /\ scratchpad'.has]_vars

\* a call of handle_symlinks on the package units of the repository
PackagesCallStep ==
    /\ pc = "idle" /\ pc' = "idle"
    /\ changes' = changes
    /\ inv'.op = "handle_symlinks"

\* link creation raises for package unit u in the current state: at the
\* first link, or at the link under the package subdirectory
LinkRaises(u) ==
    /\ src_exists(sysenv, PkgSrc(u))
    /\ \/ create_symlink(wd, sysenv, PkgSrc(u), PkgPath(u)).ret = "raise"
       \/ /\ create_symlink(wd, sysenv, PkgSrc(u), PkgPath(u)).ret = "True"
          /\ package_dir # None
          /\ create_symlink(create_symlink(wd, sysenv, PkgSrc(u), PkgPath(u)).wd,
                            sysenv, PkgSrc(u), PkgDirPath(package_dir, u)).ret = "raise"

\* C23: an exception raised by link creation for one unit of handle_symlinks
\* does not leave the call: it adds exactly one error tuple for that unit,
\* every unit after it is still processed (its iteration is reported and its
\* link made), and the status returned is True exactly when the error list
\* is empty
C23_LinkExceptionCaught ==
    [][PackagesCallStep
       => /\ inv'.status = (inv'.errors = <<>>)
          /\ Len(inv'.reports) >= Len(units_db.pkgs) + 1
          /\ \A i \in 1..Len(units_db.pkgs) :
                 LinkRaises(units_db.pkgs[i])
                 => /\ Cardinality({k \in 1..Len(inv'.errors) :
                                      inv'.errors[k][1] = PkgSrc(units_db.pkgs[i])}) = 1
                    /\ \A j \in (i + 1)..Len(units_db.pkgs) :
                           wd'[PkgPath(units_db.pkgs[j])]
                               = LinkTo(PkgSrc(units_db.pkgs[j]))]_vars

\* link creation raised under the package subdirectory for the first of two
\* units; the second unit has both its links
C23_Witness ==
    /\ AfterHandleSymlinks
    /\ Len(inv.units) = 2
    /\ inv.package_dir # None
    /\ inv.errors = <<ExceptionError(PkgSrc(inv.units[1]),
                                     PkgDirPath(inv.package_dir, inv.units[1]))>>
    /\ ~inv.status
    /\ wd[PkgPath(inv.units[2])] = LinkTo(PkgSrc(inv.units[2]))
    /\ wd[PkgDirPath(inv.package_dir, inv.units[2])] = LinkTo(PkgSrc(inv.units[2]))

\* C24: a tree-info link is made only for a name of the tree-info list that
\* exists in the storage directory of the unit, the first one in list order;
\* when no name of the list exists there no tree-info link is made
C24_TreeinfoDiscovery ==
    [][(DistroCallStep /\ sysenv.fault = NoFault /\ Orphans = {})
       => \A n \in 1..Len(TREE_INFO_LIST) :
              wd'[TopPath(TREE_INFO_LIST[n])] # wd[TopPath(TREE_INFO_LIST[n])]
              => \E i \in 1..Len(units_db.distro) :
                     /\ wd'[TopPath(TREE_INFO_LIST[n])]
                            = LinkTo(TreeinfoSrc(units_db.distro[i].id, TREE_INFO_LIST[n]))
                     /\ src_exists(sysenv, TreeinfoSrc(units_db.distro[i].id,
                                                       TREE_INFO_LIST[n]))
                     /\ \A j \in 1..(n - 1) :
                            ~src_exists(sysenv, TreeinfoSrc(units_db.distro[i].id,
                                                            TREE_INFO_LIST[j]))]_vars

\* the Packages alias is absent and its creation fails in the current state
AliasFails ==
    /\ ~exists(wd, sysenv, PackagesPath)
    /\ sysenv.fault \in {<<"false", PackagesPath>>, <<"raise", PackagesPath>>}

\* C25: after a distribution pass either the path Packages at the root of
\* the working tree is a link to the working tree itself or the error list
\* holds a tuple for the alias; a failure to create the alias keeps neither
\* the manifest from being persisted nor the call from returning to the
\* later phases
C25_PackagesAlias ==
    [][(DistroCallStep /\ Orphans = {})
       => /\ ~inv'.raised
             => \/ wd'[PackagesPath] = LinkTo(WD)
                \/ \E k \in 1..Len(inv'.errors) : inv'.errors[k][2] = PackagesPath
          /\ AliasFails
             => /\ ~inv'.raised
                /\ \A i \in 1..Len(units_db.distro) :
                       i = Len(units_db.distro)
                       => /\ scratchpad'.has
                          /\ units_db.distro[i].id \in DOMAIN scratchpad'.m]_vars

\* C26: when a distribution pass returns, the last record it reported has
\* the state FINISHED exactly when the error list is empty and FAILED exactly
\* when it is not, a FAILED record carries the whole error list as its
\* error_details, and the status returned is True exactly with FINISHED
C26_TerminalState ==
    (AfterDistro /\ ~inv.raised)
    => /\ (inv.reports[Len(inv.reports)].state = "FINISHED") = (inv.errors = <<>>)
       /\ (inv.reports[Len(inv.reports)].state = "FAILED") = (inv.errors # <<>>)
       /\ inv.errors # <<>>
              => inv.reports[Len(inv.reports)].error_details = inv.errors
       /\ inv.status = (inv.reports[Len(inv.reports)].state = "FINISHED")

\* a pass over two units ended FAILED with one error tuple, having counted
\* a success for another file
C26_Witness ==
    /\ AfterDistro /\ ~inv.raised
    /\ Len(inv.units) = 2
    /\ Len(inv.errors) = 1
    /\ inv.reports[Len(inv.reports)].state = "FAILED"
    /\ inv.reports[Len(inv.reports)].error_details = inv.errors
    /\ inv.reports[Len(inv.reports)].num_success > 0
    /\ ~inv.status

\* every published tree of the repository is at the path stored in the
\* repository scratchpad
Tracked ==
    \A l \in pub : repo_scratchpad.has /\ l[2] = repo_scratchpad.old_relative_path

TrackedAfter ==
    \A l \in pub' : repo_scratchpad'.has /\ l[2] = repo_scratchpad'.old_relative_path

CanceledBefore ==
    /\ inv.op = "publish_repo"
    /\ report = CancelReport
    /\ inv.changes = changes

\* C28: a cancel request affects the publish in flight only: a publish that
\* follows a cancelled one, with no cancel request in between, is not
\* cancelled and runs its pipeline
C28_CancelOnePublish ==
    [][(BeginStep /\ CanceledBefore)
       => /\ report' # CancelReport
          /\ inv'.steps # <<>>]_vars

\* C29: a publish makes package links under a package subdirectory only if
\* a distribution unit it processes names that subdirectory: none when the
\* publish skips distributions or has no such unit
C29_PackageDirOfThisPublish ==
    [][BeginStep
       => \A d \in PackageDirs : \A u \in Pkgs :
              (wd'[PkgDirPath(d, u)] # wd[PkgDirPath(d, u)] /\ islink(wd', PkgDirPath(d, u)))
              => /\ "distribution" \notin repo_config.skip
                 /\ \E i \in 1..Len(units_db.distro) :
                        units_db.distro[i].packagedir = d]_vars

\* a publish returns a success report
SuccessStep == CompletedStep /\ report'.kind = "success"

\* C30 as stated: when publish_repo returns a success report every enabled
\* protocol has its phase FINISHED and its published link in place
C30_SuccessImpliesPublished ==
    [][SuccessStep
       => \A root \in Roots :
              Enabled(inv.config, root)
              => /\ progress_status'["publish_" \o root].state = "FINISHED"
                 /\ <<root, RelPath(inv.config)>> \in pub']_vars

\* C30 amended: when publish_repo returns a success report every enabled
\* protocol has its phase FINISHED or FAILED and every disabled one SKIPPED;
\* the phase is FINISHED with the published link in place when neither the
\* link creation nor the listing generation of that protocol fails
C30_SuccessReport ==
    [][SuccessStep
       => \A root \in Roots :
              /\ Enabled(inv.config, root)
                 => progress_status'["publish_" \o root].state \in {"FINISHED", "FAILED"}
              /\ ~Enabled(inv.config, root)
                 => progress_status'["publish_" \o root].state = "SKIPPED"
              /\ (Enabled(inv.config, root) /\ StepSucceeds(sysenv, root))
                 => /\ progress_status'["publish_" \o root].state = "FINISHED"
                    /\ <<root, RelPath(inv.config)>> \in pub']_vars

\* a success report with both protocols enabled: HTTPS published, the HTTP
\* phase FAILED and no link under the HTTP root
C30_Witness ==
    /\ Returned
    /\ report.kind = "success"
    /\ inv.config.http /\ inv.config.https
    /\ progress_status.publish_https.state = "FINISHED"
    /\ progress_status.publish_http.state = "FAILED"
    /\ pub = {<<"https", RelPath(inv.config)>>}

\* C31: in every distribution progress record reported to the tracker the
\* counters do not exceed the total the record announces:
\* num_success + num_error + items_left <= items_total, and items_left >= 0
C31_CountersWithinTotal ==
    AfterDistro
    => \A k \in 1..Len(inv.reports) :
           /\ inv.reports[k].num_success + inv.reports[k].num_error
                  + inv.reports[k].items_left <= inv.reports[k].items_total
           /\ inv.reports[k].items_left >= 0

\* C32: in every report of publish_repo the published counts are not
\* negative and the error counts do not exceed the attempted counts, for
\* packages and for distributions
C32_ReportCounts ==
    Returned
    => /\ 0 <= report.summary.num_package_units_errors
       /\ report.summary.num_package_units_errors
              <= report.summary.num_package_units_attempted
       /\ report.summary.num_package_units_published >= 0
       /\ 0 <= report.summary.num_distribution_units_errors
       /\ report.summary.num_distribution_units_errors
              <= report.summary.num_distribution_units_attempted
       /\ report.summary.num_distribution_units_published >= 0

===========================================================================
